---- MODULE Spec2Model ----
(***************************************************************************)
(* Model of jsonl_to_csv.py: JsonlToCsvConverter (read_jsonl,              *)
(* get_all_keys, flatten_value, convert_file, expand_patterns) and the     *)
(* command line loop _run_cli.                                             *)
(*                                                                         *)
(* Text is modelled below the level of the claims: a string is a sequence  *)
(* of code points, a line of a file is a sequence of lexical tokens, and   *)
(* json.loads, json.dumps and str are computed on those.                   *)
(***************************************************************************)
EXTENDS Integers, Sequences, FiniteSets, TLC

(***************************************************************************)
(* Bounds of the model.                                                    *)
(***************************************************************************)
MaxLines == 2
MaxFiles == 2

(***************************************************************************)
(* Strings: sequences of code points.  "a" = <<97>>, "b" = <<98>>,         *)
(* "ab" = <<97, 98>>, "µ" = <<181>>.                                       *)
(***************************************************************************)
Str_a == <<97>>
Str_b == <<98>>
Str_ab == <<97, 98>>
Str_mu == <<181>>
Str_up == <<117, 112>>

\* Python's str comparison: code point by code point, a proper prefix first.
RECURSIVE StrLess(_, _)
StrLess(x, y) ==
    IF x = <<>> THEN y # <<>>
    ELSE IF y = <<>> THEN FALSE
    ELSE IF x[1] # y[1] THEN x[1] < y[1]
    ELSE StrLess(Tail(x), Tail(y))

(***************************************************************************)
(* Tokens of a line of text: punctuation, white space, a string literal,   *)
(* a number, a bare word, and raw text (the characters of a str, without   *)
(* quotes).                                                                *)
(***************************************************************************)
Tok(k, s, n, cp) == [k |-> k, s |-> s, n |-> n, cp |-> cp]
P(c) == Tok("punct", c, 0, <<>>)
WS == Tok("ws", " ", 0, <<>>)
S(cp) == Tok("strlit", "", 0, cp)
N(n) == Tok("num", "", n, <<>>)
W(w) == Tok("word", w, 0, <<>>)
Raw(cp) == Tok("raw", "", 0, cp)

(***************************************************************************)
(* Python values produced by json.loads.                                   *)
(* A dict is the sequence of its items [key, val] in insertion order; a    *)
(* list is the sequence of its elements, each an item with the key "".     *)
(***************************************************************************)
PyVal(t, b, n, s, xs) == [t |-> t, b |-> b, n |-> n, s |-> s, xs |-> xs]
PyNone == PyVal("None", FALSE, 0, <<>>, <<>>)
PyStr(s) == PyVal("str", FALSE, 0, s, <<>>)
PyInt(n) == PyVal("int", FALSE, n, <<>>, <<>>)
PyBool(b) == PyVal("bool", b, 0, <<>>, <<>>)
PyList(xs) == PyVal("list", FALSE, 0, <<>>, xs)
PyDict(items) == PyVal("dict", FALSE, 0, <<>>, items)
Item(key, val) == [key |-> key, val |-> val]

DictKeys(d) == [i \in DOMAIN d.xs |-> d.xs[i].key]
DictKeySet(d) == {d.xs[i].key : i \in DOMAIN d.xs}

\* dict.get(key): the value stored under key, None when the key is absent.
DictGet(d, key) ==
    IF key \in DictKeySet(d)
    THEN LET i == CHOOSE j \in DOMAIN d.xs : d.xs[j].key = key IN d.xs[i].val
    ELSE PyNone

\* d[key] = val on the item sequence: a repeated key keeps its place and
\* takes the later value.
DictSet(items, key, val) ==
    IF \E j \in DOMAIN items : items[j].key = key
    THEN [j \in DOMAIN items |->
             IF items[j].key = key THEN Item(key, val) ELSE items[j]]
    ELSE Append(items, Item(key, val))

(***************************************************************************)
(* json.loads on a token sequence.  A result is [ok, val, pos]: pos is the *)
(* index of the first token after the value.                               *)
(***************************************************************************)
ParseFail == [ok |-> FALSE, val |-> PyNone, pos |-> 0]
ParseOk(val, pos) == [ok |-> TRUE, val |-> val, pos |-> pos]

\* Bind(e, F) is F(e) with e evaluated once, before F is applied.
Bind(e, F(_)) == CHOOSE res \in {F(x) : x \in {e}} : TRUE

RECURSIVE SkipWs(_, _)
SkipWs(toks, i) ==
    IF i <= Len(toks) /\ toks[i].k = "ws" THEN SkipWs(toks, i + 1) ELSE i

IsPunct(toks, i, c) == i <= Len(toks) /\ toks[i] = P(c)

\* dict(pairs): the items of the pairs in order.
RECURSIVE DictOf(_, _)
DictOf(pairs, items) ==
    IF pairs = <<>> THEN items
    ELSE DictOf(Tail(pairs), DictSet(items, pairs[1].key, pairs[1].val))

RECURSIVE ParseValue(_, _)
RECURSIVE ParseElems(_, _, _)
RECURSIVE ParseMembers(_, _, _)

\* The elements of an array after "[" or after ",": a value, then "," or "]".
ParseElems(toks, i, acc) ==
    Bind(ParseValue(toks, i), LAMBDA r :
      IF ~r.ok THEN ParseFail
      ELSE Bind(SkipWs(toks, r.pos), LAMBDA j :
             IF IsPunct(toks, j, "]")
             THEN ParseOk(PyList(Append(acc, Item(<<>>, r.val))), j + 1)
             ELSE IF IsPunct(toks, j, ",")
             THEN ParseElems(toks, j + 1, Append(acc, Item(<<>>, r.val)))
             ELSE ParseFail))

\* The members of an object after "{" or after ",": "key" : value, then
\* "," or "}".  pairs are the members read so far.
ParseMembers(toks, i, pairs) ==
    Bind(SkipWs(toks, i), LAMBDA j :
      IF ~(j <= Len(toks) /\ toks[j].k = "strlit") THEN ParseFail
      ELSE Bind(SkipWs(toks, j + 1), LAMBDA c :
        IF ~IsPunct(toks, c, ":") THEN ParseFail
        ELSE Bind(ParseValue(toks, c + 1), LAMBDA r :
          IF ~r.ok THEN ParseFail
          ELSE Bind(SkipWs(toks, r.pos), LAMBDA e :
            IF IsPunct(toks, e, "}")
            THEN ParseOk(PyDict(DictOf(Append(pairs, Item(toks[j].cp, r.val)), <<>>)),
                         e + 1)
            ELSE IF IsPunct(toks, e, ",")
            THEN ParseMembers(toks, e + 1, Append(pairs, Item(toks[j].cp, r.val)))
            ELSE ParseFail))))

ParseValue(toks, i0) ==
    Bind(SkipWs(toks, i0), LAMBDA i :
      IF i > Len(toks) THEN ParseFail
      ELSE Bind(toks[i], LAMBDA tok :
         CASE tok.k = "strlit" -> ParseOk(PyStr(tok.cp), i + 1)
           [] tok.k = "num" -> ParseOk(PyInt(tok.n), i + 1)
           [] tok.k = "word" ->
                IF tok.s = "null" THEN ParseOk(PyNone, i + 1)
                ELSE IF tok.s = "true" THEN ParseOk(PyBool(TRUE), i + 1)
                ELSE IF tok.s = "false" THEN ParseOk(PyBool(FALSE), i + 1)
                ELSE ParseFail
           [] tok.k = "punct" ->
                IF tok.s = "[" THEN
                    Bind(SkipWs(toks, i + 1), LAMBDA j :
                      IF IsPunct(toks, j, "]") THEN ParseOk(PyList(<<>>), j + 1)
                      ELSE ParseElems(toks, i + 1, <<>>))
                ELSE IF tok.s = "{" THEN
                    Bind(SkipWs(toks, i + 1), LAMBDA j :
                      IF IsPunct(toks, j, "}") THEN ParseOk(PyDict(<<>>), j + 1)
                      ELSE ParseMembers(toks, i + 1, <<>>))
                ELSE ParseFail
           [] OTHER -> ParseFail))

\* json.loads(s): one value and nothing but white space after it; a failure
\* is json.JSONDecodeError.
json_loads(toks) ==
    Bind(ParseValue(toks, 1), LAMBDA r :
      IF r.ok /\ SkipWs(toks, r.pos) > Len(toks) THEN r ELSE ParseFail)

\* str.strip(): the text without its leading and trailing white space.
RECURSIVE strip(_)
strip(toks) ==
    IF toks = <<>> THEN <<>>
    ELSE IF toks[1].k = "ws" THEN strip(Tail(toks))
    ELSE IF toks[Len(toks)].k = "ws" THEN strip(SubSeq(toks, 1, Len(toks) - 1))
    ELSE toks

(***************************************************************************)
(* json.dumps(value, ensure_ascii) and str(value) as token sequences.      *)
(***************************************************************************)
\* With ensure_ascii a code point above 127 is written as its \u escape,
\* here the negated code point.
EscapeStr(s, ensure_ascii) ==
    [i \in DOMAIN s |-> IF ensure_ascii /\ s[i] > 127 THEN 0 - s[i] ELSE s[i]]

RECURSIVE json_dumps(_, _)
RECURSIVE DumpElems(_, _)
RECURSIVE DumpItems(_, _)

DumpElems(xs, ensure_ascii) ==
    IF xs = <<>> THEN <<>>
    ELSE json_dumps(xs[1].val, ensure_ascii)
         \o (IF Len(xs) > 1 THEN <<P(","), WS>> ELSE <<>>)
         \o DumpElems(Tail(xs), ensure_ascii)

DumpItems(items, ensure_ascii) ==
    IF items = <<>> THEN <<>>
    ELSE <<S(EscapeStr(items[1].key, ensure_ascii)), P(":"), WS>>
         \o json_dumps(items[1].val, ensure_ascii)
         \o (IF Len(items) > 1 THEN <<P(","), WS>> ELSE <<>>)
         \o DumpItems(Tail(items), ensure_ascii)

json_dumps(value, ensure_ascii) ==
    CASE value.t = "None" -> <<W("null")>>
      [] value.t = "bool" -> IF value.b THEN <<W("true")>> ELSE <<W("false")>>
      [] value.t = "int" -> <<N(value.n)>>
      [] value.t = "str" -> <<S(EscapeStr(value.s, ensure_ascii))>>
      [] value.t = "list" ->
            <<P("[")>> \o DumpElems(value.xs, ensure_ascii) \o <<P("]")>>
      [] value.t = "dict" ->
            <<P("{")>> \o DumpItems(value.xs, ensure_ascii) \o <<P("}")>>

\* str(value) of a value that is not a dict, a list or None.
py_str(value) ==
    CASE value.t = "str" -> IF value.s = <<>> THEN <<>> ELSE <<Raw(value.s)>>
      [] value.t = "int" -> <<N(value.n)>>
      [] value.t = "bool" -> IF value.b THEN <<W("True")>> ELSE <<W("False")>>

\* flatten_value as str(value) for every value that is not a dict or a list.
flatten_value_str_none(value, ensure_ascii) ==
    IF value.t \in {"dict", "list"} THEN json_dumps(value, ensure_ascii)
    ELSE IF value.t = "None" THEN <<W("None")>>
    ELSE py_str(value)

\* JsonlToCsvConverter.flatten_value.  The empty string is <<>>.
flatten_value(value, ensure_ascii) ==
    IF value.t \in {"dict", "list"} THEN json_dumps(value, ensure_ascii)
    ELSE IF value.t = "None" THEN <<>>
    ELSE py_str(value)

(***************************************************************************)
(* Paths and files.  A path is a stem and an extension; a file is a        *)
(* sequence of entries: a line of text (tokens), a row written by the csv  *)
(* writer (cells, each a token sequence), or a hole left by a write past   *)
(* the end of the file.                                                    *)
(***************************************************************************)
Path(stem, ext) == [stem |-> stem, ext |-> ext]

\* pathlib: in_path.with_suffix(".csv")
with_suffix_csv(p) == [stem |-> p.stem, ext |-> "csv"]

Stems == {"a", "b"}
Exts == {"jsonl", "txt", "csv"}
Paths == {Path(s, e) : s \in Stems, e \in Exts}

NoFile == [exists |-> FALSE, body |-> <<>>]
File(body) == [exists |-> TRUE, body |-> body]

Entry(k, toks, cells) == [k |-> k, toks |-> toks, cells |-> cells]
Line(toks) == Entry("line", toks, <<>>)
Row(cells) == Entry("row", <<>>, cells)
Hole == Entry("hole", <<>>, <<>>)

\* The cell the csv writer writes for a str: its characters.
TextCell(s) == IF s = <<>> THEN <<>> ELSE <<Raw(s)>>
HeaderRow(headers) == Row([i \in DOMAIN headers |-> TextCell(headers[i])])

\* Path.exists()
exists(files, p) == files[p].exists

(***************************************************************************)
(* The lines the input files are drawn from.                               *)
(***************************************************************************)
L_blank == <<>>
L_ws == <<WS, WS>>
L_bad == <<P("{"), S(Str_a), P(":")>>
L_num == <<N(5)>>
L_arr == <<P("["), N(1), P(","), N(2), P("]")>>
L_empty == <<P("{"), WS, P("}")>>
L_a == <<WS, P("{"), S(Str_a), P(":"), WS, N(1), P("}"), WS>>
L_ba == <<P("{"), S(Str_b), P(":"), W("null"), P(","),
          S(Str_a), P(":"), S(Str_up), P("}")>>
L_nest == <<P("{"), S(Str_mu), P(":"), P("["), N(1), P(","), S(Str_mu), P("]"),
            P(","), S(Str_ab), P(":"), P("{"), S(Str_b), P(":"), W("true"),
            P("}"), P("}")>>
L_dup == <<P("{"), S(Str_b), P(":"), N(2), P(","), S(Str_a), P(":"), S(<<>>),
           P(","), S(Str_b), P(":"), W("false"), P("}")>>

LineTexts ==
    {L_blank, L_ws, L_bad, L_num, L_arr, L_empty, L_a, L_ba, L_nest, L_dup}

RECURSIVE SeqsUpTo(_, _)
SeqsUpTo(S0, n) ==
    IF n = 0 THEN {<<>>}
    ELSE LET shorter == SeqsUpTo(S0, n - 1) IN
         shorter \cup {Append(q, x) : q \in shorter, x \in S0}

\* The contents an input file can have: at most MaxLines lines.
InputBodies == {[i \in DOMAIN q |-> Line(q[i])] : q \in SeqsUpTo(LineTexts, MaxLines)}

\* What an output path holds before the call when it already exists.
OldBody == <<HeaderRow(<<Str_a>>), Row(<<<<N(7)>>>>), Row(<<<<N(8)>>>>),
             Row(<<<<N(9)>>>>)>>

(***************************************************************************)
(* Exceptions and warnings.                                                *)
(***************************************************************************)
Exc(type, msg) == [exc |-> type, msg |-> msg]
FileNotFound == Exc("FileNotFoundError", "File not found")
NoValidRecords == Exc("ValueError", "No valid JSON objects found")
NoHeaders == Exc("ValueError", "No keys found across JSON objects")
DestinationExists == Exc("FileExistsError", "Output file already exists")
IOFailure == Exc("OSError", "write failed")
NoExc == Exc("", "")

Warning(kind, line_num, path) == [kind |-> kind, line |-> line_num, path |-> path]

(***************************************************************************)
(* JsonlToCsvConverter.read_jsonl on an existing file: the loop over       *)
(* enumerate(file, 1).                                                     *)
(***************************************************************************)
\* read_jsonl with enumerate(file) in place of enumerate(file, 1).
RECURSIVE ReadLines_from0(_, _, _, _, _)
ReadLines_from0(body, line_num, path, data, warnings) ==
    IF line_num > Len(body) THEN [data |-> data, warnings |-> warnings]
    ELSE Bind(strip(body[line_num].toks), LAMBDA s :
         IF s = <<>> THEN ReadLines_from0(body, line_num + 1, path, data, warnings)
         ELSE Bind(json_loads(s), LAMBDA r :
              IF r.ok THEN
                 IF r.val.t = "dict"
                 THEN ReadLines_from0(body, line_num + 1, path,
                                      Append(data, r.val), warnings)
                 ELSE ReadLines_from0(body, line_num + 1, path, data,
                                      Append(warnings,
                                             Warning("non-object", line_num - 1, path)))
              ELSE ReadLines_from0(body, line_num + 1, path, data,
                                   Append(warnings,
                                          Warning("invalid", line_num - 1, path)))))

RECURSIVE ReadLines(_, _, _, _, _)
ReadLines(body, line_num, path, data, warnings) ==
    IF line_num > Len(body) THEN [data |-> data, warnings |-> warnings]
    ELSE Bind(strip(body[line_num].toks), LAMBDA s :
         IF s = <<>> THEN ReadLines(body, line_num + 1, path, data, warnings)
         ELSE Bind(json_loads(s), LAMBDA r :
              IF r.ok THEN
                 IF r.val.t = "dict"
                 THEN ReadLines(body, line_num + 1, path,
                                Append(data, r.val), warnings)
                 ELSE ReadLines(body, line_num + 1, path, data,
                                Append(warnings,
                                       Warning("non-object", line_num, path)))
              ELSE ReadLines(body, line_num + 1, path, data,
                             Append(warnings, Warning("invalid", line_num, path)))))

read_jsonl(files, path) == ReadLines(files[path].body, 1, path, <<>>, <<>>)

(***************************************************************************)
(* JsonlToCsvConverter.get_all_keys: the union of the keys, sorted.        *)
(***************************************************************************)
RECURSIVE UpdateAll(_, _)
UpdateAll(all_keys, data) ==
    IF data = <<>> THEN all_keys
    ELSE UpdateAll(all_keys \cup DictKeySet(data[1]), Tail(data))

\* sorted(): ascending in Python's order on str.
RECURSIVE sorted(_)
sorted(keys) ==
    IF keys = {} THEN <<>>
    ELSE LET m == CHOOSE x \in keys : \A y \in keys : x = y \/ StrLess(x, y) IN
         <<m>> \o sorted(keys \ {m})

\* get_all_keys without the sort: the keys in the order they are first seen.
RECURSIVE FirstSeen(_, _)
FirstSeen(keys, acc) ==
    IF keys = <<>> THEN acc
    ELSE FirstSeen(Tail(keys),
                   IF \E i \in DOMAIN acc : acc[i] = keys[1] THEN acc
                   ELSE Append(acc, keys[1]))

RECURSIVE AllKeysInOrder(_)
AllKeysInOrder(data) ==
    IF data = <<>> THEN <<>> ELSE DictKeys(data[1]) \o AllKeysInOrder(Tail(data))

get_all_keys_unsorted(data) == FirstSeen(AllKeysInOrder(data), <<>>)

get_all_keys(data) == sorted(UpdateAll({}, data))

(***************************************************************************)
(* State.                                                                  *)
(*   fs       the files: Paths -> NoFile or File(body)                     *)
(*   calls    the calls of convert_file, one record per caller             *)
(*   cli      the command line loop of _run_cli                            *)
(*   stdout   what print has written                                       *)
(*   finished the callers in the order their calls ended (history)         *)
(***************************************************************************)
VARIABLES fs, calls, cli, stdout, finished

vars == <<fs, calls, cli, stdout, finished>>

Procs == {1, 2}
Other(p) == 3 - p

NoPath == Path("", "")
NoResult == [input_file |-> NoPath, output_file |-> NoPath,
             records_written |-> 0, headers |-> <<>>, warnings |-> <<>>]

\* A caller that has made no call.
IdleCall ==
    [pc |-> "idle", input_file |-> NoPath, output_file |-> NoPath,
     overwrite |-> FALSE, ensure_ascii |-> FALSE, logger |-> "none",
     in_path |-> NoPath, out_path |-> NoPath,
     records |-> <<>>, warnings |-> <<>>, headers |-> <<>>,
     pos |-> 0, written |-> 0, exc |-> NoExc, result |-> NoResult,
     before |-> [p \in Paths |-> NoFile], exclusive |-> FALSE]

\* convert_file(input_file, output_file) entered on a converter built with
\* the given options; output_file = NoPath stands for None.  before is the
\* file system at entry (history).
NewCall(input_file, output_file, overwrite, ensure_ascii, logger, files) ==
    [IdleCall EXCEPT !.pc = "Start", !.input_file = input_file,
                     !.output_file = output_file, !.overwrite = overwrite,
                     !.ensure_ascii = ensure_ascii, !.logger = logger,
                     !.before = files]

Terminal == {"Done", "Failed"}

Raise(c, e) == [c EXCEPT !.pc = "Failed", !.exc = e]

\* The row convert_file builds for one record: a cell per header.
RowOf(item, headers, ensure_ascii) ==
    [i \in DOMAIN headers |-> flatten_value(DictGet(item, headers[i]), ensure_ascii)]

\* A write of one entry at offset pos of a file open for writing: in place,
\* at the end, or past the end over a hole.
RECURSIVE Holes(_)
Holes(n) == IF n = 0 THEN <<>> ELSE Append(Holes(n - 1), Hole)

WriteAt(body, pos, entry) ==
    IF pos < Len(body) THEN [body EXCEPT ![pos + 1] = entry]
    ELSE body \o Holes(pos - Len(body)) \o <<entry>>

(***************************************************************************)
(* convert_file, step by step.                                             *)
(***************************************************************************)
\* in_path, out_path (the first two statements).
Start(p) ==
    /\ calls[p].pc = "Start"
    /\ LET c == calls[p] IN
       calls' = [calls EXCEPT ![p] =
          [c EXCEPT !.pc = "Reading",
                    !.in_path = c.input_file,
                    !.out_path = IF c.output_file # NoPath THEN c.output_file
                                 ELSE with_suffix_csv(c.input_file)]]
    /\ UNCHANGED <<fs, cli, stdout, finished>>

\* Reading with the output checked before the input is read.
Reading_output_first(p) ==
    /\ calls[p].pc = "Reading"
    /\ LET c == calls[p]
           r == read_jsonl(fs, c.in_path) IN
       IF exists(fs, c.out_path) /\ ~c.overwrite
       THEN /\ calls' = [calls EXCEPT ![p] = Raise(c, DestinationExists)]
            /\ finished' = Append(finished, p)
       ELSE IF ~exists(fs, c.in_path)
       THEN /\ calls' = [calls EXCEPT ![p] = Raise(c, FileNotFound)]
            /\ finished' = Append(finished, p)
       ELSE IF r.data = <<>>
       THEN /\ calls' = [calls EXCEPT ![p] =
                   Raise([c EXCEPT !.warnings = r.warnings], NoValidRecords)]
            /\ finished' = Append(finished, p)
       ELSE /\ calls' = [calls EXCEPT ![p] =
                   [c EXCEPT !.pc = "SchemaCheck", !.records = r.data,
                             !.warnings = r.warnings]]
            /\ UNCHANGED finished
    /\ UNCHANGED <<fs, cli, stdout>>

\* records, warnings = self.read_jsonl(in_path); if not records: raise.
Reading(p) ==
    /\ calls[p].pc = "Reading"
    /\ LET c == calls[p]
           r == read_jsonl(fs, c.in_path) IN
       IF ~exists(fs, c.in_path)
       THEN /\ calls' = [calls EXCEPT ![p] = Raise(c, FileNotFound)]
            /\ finished' = Append(finished, p)
       ELSE IF r.data = <<>>
       THEN /\ calls' = [calls EXCEPT ![p] =
                   Raise([c EXCEPT !.warnings = r.warnings], NoValidRecords)]
            /\ finished' = Append(finished, p)
       ELSE /\ calls' = [calls EXCEPT ![p] =
                   [c EXCEPT !.pc = "SchemaCheck", !.records = r.data,
                             !.warnings = r.warnings]]
            /\ UNCHANGED finished
    /\ UNCHANGED <<fs, cli, stdout>>

\* SchemaCheck raising the exception of the records check.
SchemaCheck_same_error(p) ==
    /\ calls[p].pc = "SchemaCheck"
    /\ LET c == calls[p]
           headers == get_all_keys(c.records) IN
       IF headers = <<>>
       THEN /\ calls' = [calls EXCEPT ![p] = Raise(c, NoValidRecords)]
            /\ finished' = Append(finished, p)
       ELSE /\ calls' = [calls EXCEPT ![p] =
                   [c EXCEPT !.pc = "ExistenceCheck", !.headers = headers]]
            /\ UNCHANGED finished
    /\ UNCHANGED <<fs, cli, stdout>>

\* headers = self.get_all_keys(records); if not headers: raise.
SchemaCheck(p) ==
    /\ calls[p].pc = "SchemaCheck"
    /\ LET c == calls[p]
           headers == get_all_keys(c.records) IN
       IF headers = <<>>
       THEN /\ calls' = [calls EXCEPT ![p] = Raise(c, NoHeaders)]
            /\ finished' = Append(finished, p)
       ELSE /\ calls' = [calls EXCEPT ![p] =
                   [c EXCEPT !.pc = "ExistenceCheck", !.headers = headers]]
            /\ UNCHANGED finished
    /\ UNCHANGED <<fs, cli, stdout>>

\* ExistenceCheck with the overwrite flag read the wrong way round.
ExistenceCheck_inverted(p) ==
    /\ calls[p].pc = "ExistenceCheck"
    /\ LET c == calls[p] IN
       IF exists(fs, c.out_path) /\ c.overwrite
       THEN /\ calls' = [calls EXCEPT ![p] = Raise(c, DestinationExists)]
            /\ finished' = Append(finished, p)
       ELSE /\ calls' = [calls EXCEPT ![p] = [c EXCEPT !.pc = "Writing"]]
            /\ UNCHANGED finished
    /\ UNCHANGED <<fs, cli, stdout>>

\* if out_path.exists() and not self.overwrite: raise FileExistsError.
ExistenceCheck(p) ==
    /\ calls[p].pc = "ExistenceCheck"
    /\ LET c == calls[p] IN
       IF exists(fs, c.out_path) /\ ~c.overwrite
       THEN /\ calls' = [calls EXCEPT ![p] = Raise(c, DestinationExists)]
            /\ finished' = Append(finished, p)
       ELSE /\ calls' = [calls EXCEPT ![p] = [c EXCEPT !.pc = "Writing"]]
            /\ UNCHANGED finished
    /\ UNCHANGED <<fs, cli, stdout>>

\* OpenOutput with the file opened in mode "a": nothing is truncated and the
\* position is the end of the file.
OpenOutput_append(p) ==
    /\ calls[p].pc = "Writing"
    /\ LET c == calls[p] IN
       \E fault \in BOOLEAN :
          IF fault
          THEN /\ calls' = [calls EXCEPT ![p] = Raise(c, IOFailure)]
               /\ finished' = Append(finished, p)
               /\ UNCHANGED fs
          ELSE /\ fs' = [fs EXCEPT ![c.out_path] = File(@.body)]
               /\ calls' = [calls EXCEPT ![p] =
                      [c EXCEPT !.pc = "WriteHeader", !.pos = Len(fs[c.out_path].body),
                                !.exclusive = calls[Other(p)].pc \in Terminal
                                                     \cup {"idle"}]]
               /\ UNCHANGED finished
    /\ UNCHANGED <<cli, stdout>>

\* out_path.open("w"): the file is created or truncated and the position is
\* 0, or open raises OSError and nothing changes.
OpenOutput(p) ==
    /\ calls[p].pc = "Writing"
    /\ LET c == calls[p] IN
       \E fault \in BOOLEAN :
          IF fault
          THEN /\ calls' = [calls EXCEPT ![p] = Raise(c, IOFailure)]
               /\ finished' = Append(finished, p)
               /\ UNCHANGED fs
          ELSE /\ fs' = [fs EXCEPT ![c.out_path] = File(<<>>)]
               /\ calls' = [calls EXCEPT ![p] =
                      [c EXCEPT !.pc = "WriteHeader", !.pos = 0,
                                !.exclusive = calls[Other(p)].pc \in Terminal
                                                     \cup {"idle"}]]
               /\ UNCHANGED finished
    /\ UNCHANGED <<cli, stdout>>

\* writer.writeheader(), or OSError leaving the file as it is.
WriteHeader(p) ==
    /\ calls[p].pc = "WriteHeader"
    /\ LET c == calls[p] IN
       \E fault \in BOOLEAN :
          IF fault
          THEN /\ calls' = [calls EXCEPT ![p] = Raise(c, IOFailure)]
               /\ finished' = Append(finished, p)
               /\ UNCHANGED fs
          ELSE /\ fs' = [fs EXCEPT ![c.out_path] =
                      File(WriteAt(@.body, c.pos, HeaderRow(c.headers)))]
               /\ calls' = [calls EXCEPT ![p] =
                      [c EXCEPT !.pc = "WriteRows", !.pos = @ + 1]]
               /\ UNCHANGED finished
    /\ UNCHANGED <<cli, stdout>>

\* One turn of "for item in records": writer.writerow(row), or OSError.
WriteRow(p) ==
    /\ calls[p].pc = "WriteRows"
    /\ calls[p].written < Len(calls[p].records)
    /\ LET c == calls[p]
           item == c.records[c.written + 1]
           row == RowOf(item, c.headers, c.ensure_ascii) IN
       \E fault \in BOOLEAN :
          IF fault
          THEN /\ calls' = [calls EXCEPT ![p] = Raise(c, IOFailure)]
               /\ finished' = Append(finished, p)
               /\ UNCHANGED fs
          ELSE /\ fs' = [fs EXCEPT ![c.out_path] =
                      File(WriteAt(@.body, c.pos, Row(row)))]
               /\ calls' = [calls EXCEPT ![p] =
                      [c EXCEPT !.pos = @ + 1, !.written = @ + 1]]
               /\ UNCHANGED finished
    /\ UNCHANGED <<cli, stdout>>

\* The end of the with block, self._log(...) and the return of the result.
Return(p) ==
    /\ calls[p].pc = "WriteRows"
    /\ calls[p].written = Len(calls[p].records)
    /\ LET c == calls[p] IN
       /\ calls' = [calls EXCEPT ![p] =
             [c EXCEPT !.pc = "Done",
                       !.result = [input_file |-> c.in_path,
                                   output_file |-> c.out_path,
                                   records_written |-> Len(c.records),
                                   headers |-> c.headers,
                                   warnings |-> c.warnings]]]
       /\ stdout' = IF c.logger = "print"
                    THEN Append(stdout, [msg |-> "Converted", file |-> c.in_path])
                    ELSE stdout
    /\ finished' = Append(finished, p)
    /\ UNCHANGED <<fs, cli>>

(***************************************************************************)
(* One library call of convert_file.                                       *)
(***************************************************************************)
IdleCli ==
    [pc |-> "idle", patterns |-> <<>>, output |-> NoPath, overwrite |-> FALSE,
     input_files |-> <<>>, idx |-> 1, exit_code |-> 0, use_overwrite |-> FALSE]

EmptyFs == [p \in Paths |-> NoFile]

\* The input is a.jsonl or a.csv, absent or holding any of InputBodies; the
\* output is derived (output_file is None) or b.csv, and is absent or holds
\* OldBody; the converter has any overwrite and ensure_ascii.
Init ==
    \E input_file \in {Path("a", "jsonl"), Path("a", "csv")},
       output_file \in {NoPath, Path("b", "csv")},
       in_file \in {NoFile} \cup {File(b) : b \in InputBodies},
       out_file \in {NoFile, File(OldBody)},
       overwrite \in BOOLEAN, ensure_ascii \in BOOLEAN :
       LET out == IF output_file # NoPath THEN output_file
                  ELSE with_suffix_csv(input_file)
           files == [[EmptyFs EXCEPT ![out] = out_file]
                        EXCEPT ![input_file] = in_file] IN
       /\ fs = files
       /\ calls = [p \in Procs |->
             IF p = 1
             THEN NewCall(input_file, output_file, overwrite, ensure_ascii,
                          "none", files)
             ELSE IdleCall]
       /\ cli = IdleCli
       /\ stdout = <<>>
       /\ finished = <<>>

\* One step of the call of caller p.
CallStep(p) ==
    \/ Start(p)
    \/ Reading(p)
    \/ SchemaCheck(p)
    \/ ExistenceCheck(p)
    \/ OpenOutput(p)
    \/ WriteHeader(p)
    \/ WriteRow(p)
    \/ Return(p)

Next == \E p \in Procs : CallStep(p)

Spec == Init /\ [][Next]_vars

(***************************************************************************)
(* Two concurrent calls of convert_file with the same output path a.csv:   *)
(* caller 1 converts a.jsonl with the output derived, caller 2 converts    *)
(* b.jsonl with output_file = a.csv.  Each input holds 1 to MaxLines       *)
(* objects with keys, those of a.jsonl with other keys than b.jsonl's.     *)
(***************************************************************************)
ConcBodies(text) == {[i \in 1..n |-> Line(text)] : n \in 1..MaxLines}

InitConc ==
    \E body1 \in ConcBodies(L_a), body2 \in ConcBodies(L_ba),
       out_file \in {NoFile, File(OldBody)},
       overwrite1 \in BOOLEAN, overwrite2 \in BOOLEAN :
       LET files == [EmptyFs EXCEPT ![Path("a", "jsonl")] = File(body1),
                                    ![Path("b", "jsonl")] = File(body2),
                                    ![Path("a", "csv")] = out_file] IN
       /\ fs = files
       /\ calls = [p \in Procs |->
             IF p = 1
             THEN NewCall(Path("a", "jsonl"), NoPath, overwrite1, FALSE,
                          "none", files)
             ELSE NewCall(Path("b", "jsonl"), Path("a", "csv"), overwrite2,
                          FALSE, "none", files)]
       /\ cli = IdleCli
       /\ stdout = <<>>
       /\ finished = <<>>

\* Each caller is a thread of its own and keeps running.
SpecConc == InitConc /\ [][Next]_vars /\ \A p \in Procs : WF_vars(CallStep(p))

(***************************************************************************)
(* The command line: _run_cli from the parsed arguments on.                *)
(***************************************************************************)
Msg(msg, file) == [msg |-> msg, file |-> file]

\* any(ch in p for ch in ["*", "?", "["]): the patterns of the model are
\* "*.<ext>".
IsPattern(p) == p.stem = "*"

\* What glob.glob(pattern) can return: the existing files with the
\* pattern's extension, in the order the directory lists them.
GlobResults(files, pattern) ==
    LET matches == {q \in Paths : exists(files, q) /\ q.ext = pattern.ext}
        n == Cardinality(matches) IN
    {m \in [1..n -> matches] : \A i, j \in 1..n : m[i] = m[j] => i = j}

\* expand_patterns, first loop: glob the patterns, pass the rest through.
\* globbed maps a pattern to what glob.glob returned for it.
RECURSIVE Expand(_, _)
Expand(patterns, globbed) ==
    IF patterns = <<>> THEN [expanded |-> <<>>, log |-> <<>>]
    ELSE LET rest == Expand(Tail(patterns), globbed)
             pat == patterns[1] IN
         IF IsPattern(pat) THEN
             IF globbed[pat] # <<>>
             THEN [rest EXCEPT !.expanded = globbed[pat] \o @]
             ELSE [rest EXCEPT !.log = <<Msg("No files match pattern", pat)>> \o @]
         ELSE [rest EXCEPT !.expanded = <<pat>> \o @]

\* expand_patterns, second loop: "Deduplicate while preserving order".
RECURSIVE Unique(_, _)
Unique(expanded, unique) ==
    IF expanded = <<>> THEN unique
    ELSE Unique(Tail(expanded),
                IF \E i \in DOMAIN unique : unique[i] = expanded[1] THEN unique
                ELSE Append(unique, expanded[1]))

expand_patterns(patterns, globbed) ==
    [files |-> Unique(Expand(patterns, globbed).expanded, <<>>),
     log |-> Expand(patterns, globbed).log]

GlobPatterns == {Path("*", "jsonl")}

\* converter = ...; input_files = converter.expand_patterns(...); the two
\* checks that end the run with SystemExit(1); exit_code = 0.
CliStart ==
    /\ cli.pc = "start"
    /\ \E globbed \in [GlobPatterns -> UNION {GlobResults(fs, g) : g \in GlobPatterns}] :
          /\ \A g \in GlobPatterns : globbed[g] \in GlobResults(fs, g)
          /\ LET e == expand_patterns(cli.patterns, globbed) IN
             IF e.files = <<>>
             THEN /\ cli' = [cli EXCEPT !.pc = "exit", !.exit_code = 1]
                  /\ stdout' = stdout \o e.log
                         \o <<Msg("Error: No input files specified or found", NoPath)>>
             ELSE IF cli.output # NoPath /\ Len(e.files) > 1
             THEN /\ cli' = [cli EXCEPT !.pc = "exit", !.exit_code = 1,
                                        !.input_files = e.files]
                  /\ stdout' = stdout \o e.log
                         \o <<Msg("Error: Cannot specify single output file", NoPath)>>
             ELSE /\ cli' = [cli EXCEPT !.pc = "loop", !.exit_code = 0,
                                        !.input_files = e.files, !.idx = 1]
                  /\ stdout' = stdout \o e.log
    /\ UNCHANGED <<fs, calls, finished>>

CliOutPath(in_path) ==
    IF cli.output # NoPath THEN cli.output ELSE with_suffix_csv(in_path)

\* The top of the for loop: a missing input is skipped, an existing output
\* without --overwrite leads to the prompt, otherwise convert_file is called
\* on the converter built from the arguments.
LoopTop ==
    /\ cli.pc = "loop"
    /\ cli.idx <= Len(cli.input_files)
    /\ LET in_path == cli.input_files[cli.idx]
           out_path == CliOutPath(in_path) IN
       IF ~exists(fs, in_path)
       THEN /\ stdout' = Append(stdout, Msg("Warning: not found, skipping", in_path))
            /\ cli' = [cli EXCEPT !.idx = @ + 1]
            /\ UNCHANGED calls
       ELSE IF exists(fs, out_path) /\ ~cli.overwrite
       THEN /\ cli' = [cli EXCEPT !.pc = "prompt"]
            /\ UNCHANGED <<stdout, calls>>
       ELSE /\ cli' = [cli EXCEPT !.pc = "call", !.use_overwrite = cli.overwrite]
            /\ calls' = [calls EXCEPT ![1] =
                   NewCall(in_path, out_path, cli.overwrite, FALSE, "print", fs)]
            /\ UNCHANGED stdout
    /\ UNCHANGED <<fs, finished>>

Responses == {"y", "yes", "n", ""}

\* response = input(...): anything but y or yes skips the file; otherwise a
\* temporary converter with overwrite=True makes the call.
Prompt ==
    /\ cli.pc = "prompt"
    /\ LET in_path == cli.input_files[cli.idx]
           out_path == CliOutPath(in_path) IN
       \E response \in Responses :
          IF response \notin {"y", "yes"}
          THEN /\ stdout' = Append(stdout, Msg("Skipping", in_path))
               /\ cli' = [cli EXCEPT !.pc = "loop", !.idx = @ + 1]
               /\ UNCHANGED calls
          ELSE /\ cli' = [cli EXCEPT !.pc = "call", !.use_overwrite = TRUE]
               /\ calls' = [calls EXCEPT ![1] =
                      NewCall(in_path, out_path, TRUE, FALSE, "print", fs)]
               /\ UNCHANGED stdout
    /\ UNCHANGED <<fs, finished>>

\* The prints after a result: the summary, the columns, each warning.
RECURSIVE WarningPrints(_, _)
WarningPrints(warnings, file) ==
    IF warnings = <<>> THEN <<>>
    ELSE <<Msg("Warning: skipped line", file)>> \o WarningPrints(Tail(warnings), file)

\* HandleResult without the except OSError clause: the exception leaves the
\* loop and ends the run.
HandleResult_uncaught ==
    /\ cli.pc = "call"
    /\ calls[1].pc \in Terminal
    /\ LET c == calls[1]
           in_path == cli.input_files[cli.idx] IN
       /\ IF c.pc = "Done"
          THEN /\ stdout' = stdout
                      \o <<Msg("Successfully converted", in_path),
                           Msg("CSV contains columns", in_path)>>
                      \o WarningPrints(c.result.warnings, in_path)
                      \o <<Msg("", NoPath)>>
               /\ cli' = [cli EXCEPT !.pc = "loop", !.idx = @ + 1]
          ELSE IF c.exc.exc = "FileExistsError" \/ c.exc.exc = "FileNotFoundError"
          THEN /\ stdout' = stdout \o <<Msg("Error", in_path), Msg("", NoPath)>>
               /\ cli' = [cli EXCEPT !.pc = "loop", !.idx = @ + 1, !.exit_code = 1]
          ELSE IF c.exc.exc = "ValueError"
          THEN /\ stdout' = stdout \o <<Msg("Warning", in_path), Msg("", NoPath)>>
               /\ cli' = [cli EXCEPT !.pc = "loop", !.idx = @ + 1]
          ELSE /\ stdout' = stdout
               /\ cli' = [cli EXCEPT !.pc = "exit", !.exit_code = 1]
       /\ calls' = [calls EXCEPT ![1] = IdleCall]
    /\ UNCHANGED <<fs, finished>>

\* The end of the try statement when convert_file has returned or raised,
\* then print() and the next turn of the loop.
HandleResult ==
    /\ cli.pc = "call"
    /\ calls[1].pc \in Terminal
    /\ LET c == calls[1]
           in_path == cli.input_files[cli.idx] IN
       /\ IF c.pc = "Done"
          THEN /\ stdout' = stdout
                      \o <<Msg("Successfully converted", in_path),
                           Msg("CSV contains columns", in_path)>>
                      \o WarningPrints(c.result.warnings, in_path)
                      \o <<Msg("", NoPath)>>
               /\ cli' = [cli EXCEPT !.pc = "loop", !.idx = @ + 1]
          ELSE IF c.exc.exc = "FileExistsError" \/ c.exc.exc = "FileNotFoundError"
          THEN /\ stdout' = stdout \o <<Msg("Error", in_path), Msg("", NoPath)>>
               /\ cli' = [cli EXCEPT !.pc = "loop", !.idx = @ + 1, !.exit_code = 1]
          ELSE IF c.exc.exc = "ValueError"
          THEN /\ stdout' = stdout \o <<Msg("Warning", in_path), Msg("", NoPath)>>
               /\ cli' = [cli EXCEPT !.pc = "loop", !.idx = @ + 1]
          ELSE /\ stdout' = stdout
                      \o <<Msg("Error writing CSV file", in_path), Msg("", NoPath)>>
               /\ cli' = [cli EXCEPT !.pc = "loop", !.idx = @ + 1, !.exit_code = 1]
       /\ calls' = [calls EXCEPT ![1] = IdleCall]
    /\ UNCHANGED <<fs, finished>>

\* raise SystemExit(exit_code) after the loop.
Exit ==
    /\ cli.pc = "loop"
    /\ cli.idx > Len(cli.input_files)
    /\ cli' = [cli EXCEPT !.pc = "exit"]
    /\ UNCHANGED <<fs, calls, stdout, finished>>

\* What a file named on the command line holds.
BatchBodies ==
    {<<Line(L_a)>>, <<Line(L_bad)>>, <<Line(L_empty)>>}

BatchInputs == {Path("a", "jsonl"), Path("b", "jsonl"), Path("a", "txt")}
BatchArgs == BatchInputs \cup GlobPatterns

\* The arguments are 1 to MaxFiles paths or patterns, -o b.csv or no -o,
\* and --overwrite or not.  a.txt, when there, holds an object with a key.
InitBatch ==
    \E patterns \in SeqsUpTo(BatchArgs, MaxFiles) \ {<<>>},
       output \in {NoPath, Path("b", "csv")},
       overwrite \in BOOLEAN,
       inputs \in [BatchInputs -> {NoFile} \cup {File(b) : b \in BatchBodies}],
       old \in [{Path("a", "csv"), Path("b", "csv")} -> {NoFile, File(OldBody)}] :
       /\ inputs[Path("a", "txt")] \in {NoFile, File(<<Line(L_a)>>)}
       /\ fs = [q \in Paths |->
                   IF q \in BatchInputs THEN inputs[q]
                   ELSE IF q \in DOMAIN old THEN old[q] ELSE NoFile]
       /\ calls = [p \in Procs |-> IdleCall]
       /\ cli = [IdleCli EXCEPT !.pc = "start", !.patterns = patterns,
                                !.output = output, !.overwrite = overwrite]
       /\ stdout = <<>>
       /\ finished = <<>>

NextBatch ==
    \/ CliStart
    \/ LoopTop
    \/ Prompt
    \/ HandleResult
    \/ Exit
    \/ Next

SpecBatch == InitBatch /\ [][NextBatch]_vars /\ WF_vars(NextBatch)

(***************************************************************************)
(* Vocabulary of the properties: what an input file holds, stated on its   *)
(* lines and not on the reader's loop.                                     *)
(***************************************************************************)
Active(p) == calls[p].pc # "idle"
Ended(p) == calls[p].pc \in Terminal
Succeeded(p) == calls[p].pc = "Done"
FailedWith(p, e) == calls[p].pc = "Failed" /\ calls[p].exc = e

\* The output path of a call, from its arguments.
ResolvedOut(c) ==
    IF c.output_file # NoPath THEN c.output_file
    ELSE Path(c.input_file.stem, "csv")

IsBlank(entry) == \A i \in DOMAIN entry.toks : entry.toks[i].k = "ws"
ParsesToObject(entry) ==
    Bind(json_loads(strip(entry.toks)), LAMBDA r : r.ok /\ r.val.t = "dict")
ObjectOf(entry) == json_loads(strip(entry.toks)).val

\* The numbers of a finite set, ascending.
RECURSIVE Ascending(_)
Ascending(I) ==
    IF I = {} THEN <<>>
    ELSE LET m == CHOOSE x \in I : \A y \in I : x <= y IN
         <<m>> \o Ascending(I \ {m})

ObjectIndices(body) == Ascending({i \in DOMAIN body : ParsesToObject(body[i])})
IsSkipped(entry) == ~IsBlank(entry) /\ ~ParsesToObject(entry)
SkippedIndices(body) == Ascending({i \in DOMAIN body : IsSkipped(body[i])})
NonBlankCount(body) == Cardinality({i \in DOMAIN body : ~IsBlank(body[i])})

\* The valid records of a file, in line order.
ObjectsOf(body) ==
    LET oi == ObjectIndices(body) IN [j \in DOMAIN oi |-> ObjectOf(body[oi[j]])]

KeysOf(records) == UNION {DictKeySet(records[i]) : i \in DOMAIN records}

InputBefore(p) == calls[p].before[calls[p].input_file]
OutputBefore(p) == calls[p].before[ResolvedOut(calls[p])]
HasRecords(p) == InputBefore(p).exists /\ ObjectIndices(InputBefore(p).body) # <<>>
HasHeaders(p) == HasRecords(p) /\ KeysOf(ObjectsOf(InputBefore(p).body)) # {}
Blocked(p) == OutputBefore(p).exists /\ ~calls[p].overwrite
OpenedOutput(p) ==
    \/ calls[p].pc \in {"WriteHeader", "WriteRows", "Done"}
    \/ FailedWith(p, IOFailure) /\ fs[calls[p].out_path] # calls[p].before[calls[p].out_path]

(***************************************************************************)
(* C1: a call whose output path exists, with overwrite not allowed and an  *)
(* input that yields records and headers, fails with FileExistsError, never *)
(* opens the output, and leaves the existing file as it was.               *)
(***************************************************************************)
C1_DestinationExists ==
    \A p \in Procs :
        Active(p) /\ Blocked(p) /\ HasHeaders(p) =>
            /\ calls[p].pc \notin {"Writing", "WriteHeader", "WriteRows", "Done"}
            /\ fs[ResolvedOut(calls[p])] = OutputBefore(p)
            /\ Ended(p) => FailedWith(p, DestinationExists)

C1_Witness ==
    /\ FailedWith(1, DestinationExists)
    /\ Blocked(1) /\ HasHeaders(1)
    /\ fs[ResolvedOut(calls[1])] = File(OldBody)

(***************************************************************************)
(* C2 (as claimed): a call that succeeds has created or overwritten        *)
(* exactly one file, and a call that fails, with whatever exception, has   *)
(* modified none.                                                          *)
(***************************************************************************)
ModifiedPaths(p) == {q \in Paths : fs[q] # calls[p].before[q]}

C2_FailureModifiesNothing ==
    \A p \in Procs :
        /\ Succeeded(p) => Cardinality(ModifiedPaths(p)) = 1
        /\ calls[p].pc = "Failed" => ModifiedPaths(p) = {}

(***************************************************************************)
(* C3: the checks run in the order input exists, records, headers, output  *)
(* exists; the exception is that of the first check that fails; the writer *)
(* runs only when all four pass; a call only moves forward and stays in    *)
(* the terminal state it reaches.                                          *)
(***************************************************************************)
FirstFailure(p) ==
    IF ~InputBefore(p).exists THEN FileNotFound
    ELSE IF ~HasRecords(p) THEN NoValidRecords
    ELSE IF ~HasHeaders(p) THEN NoHeaders
    ELSE IF Blocked(p) THEN DestinationExists
    ELSE NoExc

Rank(pc) ==
    CASE pc = "idle" -> 0
      [] pc = "Start" -> 1
      [] pc = "Reading" -> 2
      [] pc = "SchemaCheck" -> 3
      [] pc = "ExistenceCheck" -> 4
      [] pc = "Writing" -> 5
      [] pc = "WriteHeader" -> 6
      [] pc = "WriteRows" -> 7
      [] pc \in Terminal -> 8

C3_Outcome ==
    \A p \in Procs :
        LET first == FirstFailure(p) IN
        /\ Ended(p) /\ first # NoExc => FailedWith(p, first)
        /\ Ended(p) /\ first = NoExc => Succeeded(p) \/ FailedWith(p, IOFailure)
        /\ calls[p].pc \in {"Writing", "WriteHeader", "WriteRows"} => first = NoExc

C3_Forward ==
    \A p \in Procs :
        /\ Rank(calls'[p].pc) >= Rank(calls[p].pc)
        /\ calls'[p].pc # calls[p].pc /\ calls[p].pc # "WriteRows"
               => Rank(calls'[p].pc) > Rank(calls[p].pc)
        /\ Ended(p) => calls'[p] = calls[p]

C3_CheckOrder == [](C3_Outcome) /\ [][C3_Forward]_vars

C3_Witness ==
    /\ FailedWith(1, NoValidRecords)
    /\ InputBefore(1).exists
    /\ Blocked(1)

(***************************************************************************)
(* C4: read_jsonl returns the lines that parse to an object, once each and *)
(* in line order; each other non-blank line gives one warning with its     *)
(* 1-based line number; blank lines give nothing; so records + warnings =  *)
(* non-blank lines.                                                        *)
(***************************************************************************)
HasRead(p) == calls[p].pc \notin {"idle", "Start", "Reading"} /\ InputBefore(p).exists

WarningOf(body, i, path) ==
    Warning(IF json_loads(strip(body[i].toks)).ok THEN "non-object" ELSE "invalid",
            i, path)

C4_ReadJsonl ==
    \A p \in Procs :
        HasRead(p) =>
            LET body == InputBefore(p).body
                si == SkippedIndices(body) IN
            /\ calls[p].records = ObjectsOf(body)
            /\ calls[p].warnings =
                   [j \in DOMAIN si |-> WarningOf(body, si[j], calls[p].input_file)]
            /\ Len(calls[p].records) + Len(calls[p].warnings) = NonBlankCount(body)

\* A file whose first line is blank, whose second line is skipped with a
\* warning and has been read.
C4_Witness ==
    /\ HasRead(1)
    /\ Len(InputBefore(1).body) >= 2
    /\ IsBlank(InputBefore(1).body[1])
    /\ IsSkipped(InputBefore(1).body[2])
    /\ Len(calls[1].warnings) = 1 /\ calls[1].warnings[1].line = 2

(***************************************************************************)
(* C5: the headers are strictly ascending in code point order (so free of  *)
(* duplicates), are exactly the keys of the records, and are the same for  *)
(* every order of the records and of the keys inside each record.          *)
(***************************************************************************)
HasSchema(p) ==
    /\ calls[p].pc \notin {"idle", "Start", "Reading", "SchemaCheck"}
    /\ HasRecords(p)

Perms(n) == {f \in [1..n -> 1..n] : \A i, j \in 1..n : f[i] = f[j] => i = j}

Reversed(d) == PyDict([i \in DOMAIN d.xs |-> d.xs[Len(d.xs) + 1 - i]])

\* The records in the order f, those that flip marks with their items in
\* reverse order (a record of the model has at most two keys).
Reordered(records, f, flip) ==
    [i \in DOMAIN records |->
        IF flip[i] THEN Reversed(records[f[i]]) ELSE records[f[i]]]

C5_HeaderSet ==
    \A p \in Procs :
        HasSchema(p) =>
            LET h == calls[p].headers
                recs == calls[p].records
                n == Len(recs) IN
            /\ \A i \in 1..(Len(h) - 1) : StrLess(h[i], h[i + 1])
            /\ {h[i] : i \in DOMAIN h} = KeysOf(recs)
            /\ \A f \in Perms(n) : \A flip \in [1..n -> BOOLEAN] :
                   get_all_keys(Reordered(recs, f, flip)) = h

\* Two records whose keys arrive out of order: b before a, then ab.
C5_Witness ==
    /\ HasSchema(1)
    /\ Len(calls[1].records) = 2
    /\ DictKeys(calls[1].records[1]) = <<Str_b, Str_a>>
    /\ DictKeys(calls[1].records[2]) = <<Str_mu, Str_ab>>
    /\ calls[1].headers = <<Str_a, Str_ab, Str_b, Str_mu>>

(***************************************************************************)
(* C6: with the input present, the call fails with "no valid JSON objects" *)
(* exactly when no line parses to an object, and with "no keys found"      *)
(* exactly when some line does and every such object is empty; the two     *)
(* exceptions differ, and neither is raised when an object has a key.      *)
(***************************************************************************)
AllObjectsEmpty(body) ==
    \A i \in DOMAIN body : ParsesToObject(body[i]) => ObjectOf(body[i]).xs = <<>>

C6_NoRecordsNoHeaders ==
    \A p \in Procs :
        Ended(p) /\ InputBefore(p).exists =>
            LET body == InputBefore(p).body
                none == ObjectIndices(body) = <<>>
                empty == AllObjectsEmpty(body) IN
            /\ FailedWith(p, NoValidRecords) <=> none
            /\ FailedWith(p, NoHeaders) <=> ~none /\ empty
            /\ ~empty =>
                   ~FailedWith(p, NoValidRecords) /\ ~FailedWith(p, NoHeaders)
            /\ NoValidRecords # NoHeaders

\* A file of a skipped line and an empty object.
C6_Witness ==
    /\ FailedWith(1, NoHeaders)
    /\ Len(InputBefore(1).body) = 2
    /\ IsSkipped(InputBefore(1).body[1])
    /\ ParsesToObject(InputBefore(1).body[2])

(***************************************************************************)
(* C7: after a successful call the output is the header row followed by    *)
(* one row per record in file order, records_written is that number of     *)
(* rows, every row has a cell per header, and the cell is the flattened    *)
(* value, the empty string when the key is absent and when it is null.     *)
(***************************************************************************)
ExpectedCell(item, key, ensure_ascii) ==
    IF key \notin DictKeySet(item) THEN <<>>
    ELSE IF DictGet(item, key).t = "None" THEN <<>>
    ELSE flatten_value(DictGet(item, key), ensure_ascii)

C7_Output ==
    \A p \in Procs :
        Succeeded(p) =>
            LET out == fs[ResolvedOut(calls[p])].body
                recs == ObjectsOf(InputBefore(p).body)
                h == calls[p].result.headers IN
            /\ Len(out) = 1 + Len(recs)
            /\ out[1] = HeaderRow(h)
            /\ calls[p].result.records_written = Len(out) - 1
            /\ \A i \in DOMAIN recs :
                   /\ out[i + 1].k = "row"
                   /\ Len(out[i + 1].cells) = Len(h)
                   /\ \A j \in DOMAIN h :
                          out[i + 1].cells[j] =
                              ExpectedCell(recs[i], h[j], calls[p].ensure_ascii)

\* A written file with a cell of an absent key and a cell of a null value.
C7_Witness ==
    /\ Succeeded(1)
    /\ LET recs == ObjectsOf(InputBefore(1).body)
           h == calls[1].result.headers IN
       /\ \E i \in DOMAIN recs : \E j \in DOMAIN h : h[j] \notin DictKeySet(recs[i])
       /\ \E i \in DOMAIN recs : \E j \in DOMAIN h :
              h[j] \in DictKeySet(recs[i]) /\ DictGet(recs[i], h[j]).t = "None"

(***************************************************************************)
(* C10 (as claimed): no call modifies its input file.                      *)
(***************************************************************************)
C10_InputUnchanged ==
    \A p \in Procs :
        Active(p) => fs[calls[p].input_file] = InputBefore(p)

(***************************************************************************)
(* C8: in the loop over the input files every file is attempted or skipped *)
(* once, in list order, and reported, whatever exception the calls before  *)
(* it raised; the loop reaches the end of the list.                        *)
(***************************************************************************)
OutcomeMsgs ==
    {"Warning: not found, skipping", "Skipping", "Successfully converted",
     "Error", "Warning", "Error writing CSV file"}
IsOutcome(m) == m.msg \in OutcomeMsgs
Reports == SelectSeq(stdout, IsOutcome)

\* The run ended before the loop: no input files, or -o with several.
EndedBeforeLoop ==
    /\ cli.pc = "exit"
    /\ cli.input_files = <<>> \/ (cli.output # NoPath /\ Len(cli.input_files) > 1)

C8_Reports ==
    cli.pc \in {"loop", "prompt", "call", "exit"} /\ ~EndedBeforeLoop =>
        /\ cli.idx <= Len(cli.input_files) + 1
        /\ [i \in DOMAIN Reports |-> Reports[i].file]
               = SubSeq(cli.input_files, 1, cli.idx - 1)
        /\ cli.pc = "exit" => cli.idx = Len(cli.input_files) + 1

C8_BatchContinues == [](C8_Reports) /\ <>(cli.pc = "exit")

\* A run of two files that ended after the first failed with OSError and
\* the second was converted.
C8_Witness ==
    /\ cli.pc = "exit"
    /\ Len(cli.input_files) = 2
    /\ Len(Reports) = 2
    /\ Reports[1].msg = "Error writing CSV file"
    /\ Reports[2].msg = "Successfully converted"

(***************************************************************************)
(* C9 (as claimed): when both of two calls with the same output path have  *)
(* succeeded, the file holds exactly the output of the one that ended      *)
(* last.                                                                   *)
(***************************************************************************)
ExpectedOutput(p) ==
    LET recs == ObjectsOf(InputBefore(p).body)
        h == calls[p].result.headers IN
    <<HeaderRow(h)>> \o
    [i \in DOMAIN recs |->
        Row([j \in DOMAIN h |-> ExpectedCell(recs[i], h[j], calls[p].ensure_ascii)])]

SharedOut == fs[Path("a", "csv")].body

C9_LastWriterWins ==
    (\A p \in Procs : Succeeded(p)) =>
        SharedOut = ExpectedOutput(finished[Len(finished)])

(***************************************************************************)
(* C9 (amended): both calls end; a call that opened the output after the   *)
(* other call had ended, and succeeded, leaves exactly its own output.     *)
(***************************************************************************)
C9_Exclusive ==
    \A p \in Procs :
        Succeeded(p) /\ calls[p].exclusive => SharedOut = ExpectedOutput(p)

C9_LastExclusiveWriterWins ==
    [](C9_Exclusive) /\ <>(\A p \in Procs : Ended(p))

\* Overwrite not allowed, no output at the start, both calls passed the
\* existence check and succeeded, the second after the first had ended.
C9_Witness ==
    /\ \A p \in Procs : Succeeded(p) /\ ~calls[p].overwrite /\ ~OutputBefore(p).exists
    /\ calls[2].exclusive
    /\ Len(ExpectedOutput(1)) > Len(ExpectedOutput(2))
    /\ SharedOut = ExpectedOutput(2)

====
